---- MODULE Spec2Model ----
(***************************************************************************)
(* Model of the Mu exporter (export_mu/__init__.py): export_object and the *)
(* recursive make_obj traversal, the material/texture interner, the        *)
(* animation binding and generate_cfg.                                     *)
(*                                                                         *)
(* objects  the scene: object id -> its Blender attributes (location is    *)
(*          the one attribute the exporter mutates)                        *)
(* scene    the rest of the input: group offset, material database,        *)
(*          template sources, scene model type, animated object            *)
(* mu       the Mu model under construction (export_object's local "mu")   *)
(* muobjs   every MuObject created so far, in creation order; a MuObject   *)
(*          is referred to by its position in this sequence                *)
(* stack    the Python call stack of make_obj frames                       *)
(* pc       export_object's position                                       *)
(* ret      the value returned by the make_obj call that returned last     *)
(* error    the exception export_object was left with ("" if none)         *)
(* files    what has been written: the binary model and the config text    *)
(* calls    the make_texture calls made so far with what each returned     *)
(***************************************************************************)
EXTENDS Integers, Sequences, FiniteSets, TLC

VARIABLES objects, scene, mu, muobjs, stack, pc, ret, error, files, calls

vars == <<objects, scene, mu, muobjs, stack, pc, ret, error, files, calls>>

\* Python's None, for object ids and MuObject ids (both count from 1).
None == 0

-----------------------------------------------------------------------------
(* Python dicts: insertion-ordered sequences of [k, v] entries.            *)

DictHas(d, k) == \E i \in DOMAIN d : d[i].k = k

DictGet(d, k) == d[CHOOSE i \in DOMAIN d : d[i].k = k].v

DictSet(d, k, v) ==
    IF DictHas(d, k)
    THEN [i \in DOMAIN d |-> IF d[i].k = k THEN [k |-> k, v |-> v] ELSE d[i]]
    ELSE Append(d, [k |-> k, v |-> v])

DictValues(d) == [i \in DOMAIN d |-> d[i].v]

\* list.sort(key=lambda x: x.index): a stable insertion sort.
RECURSIVE InsertByIndex(_, _)
InsertByIndex(sorted, x) ==
    IF sorted = <<>> THEN <<x>>
    ELSE IF sorted[Len(sorted)].index <= x.index THEN Append(sorted, x)
    ELSE Append(InsertByIndex(SubSeq(sorted, 1, Len(sorted) - 1), x),
                sorted[Len(sorted)])

RECURSIVE SortByIndex(_)
SortByIndex(s) ==
    IF s = <<>> THEN <<>>
    ELSE InsertByIndex(SortByIndex(SubSeq(s, 1, Len(s) - 1)), s[Len(s)])

-----------------------------------------------------------------------------
(* Names.                                                                  *)

Digits == {"0", "1", "2", "3", "4", "5", "6", "7", "8", "9"}

\* utils.strip_nnn: drops a trailing ".NNN" (the numeric suffix Blender adds to
\* keep object names unique).
strip_nnn(name) ==
    LET n == Len(name)
    IN  IF /\ n >= 4
           /\ SubSeq(name, n - 3, n - 3) = "."
           /\ \A i \in (n - 2)..n : SubSeq(name, i, i) \in Digits
        THEN SubSeq(name, 1, n - 4)
        ELSE name

\* name[:5] == "node_"
IsNodeName(name) == SubSeq(name, 1, IF Len(name) < 5 THEN Len(name) ELSE 5) = "node_"

\* Marker names whose AttachNode keeps its transform.
KeepTransformNames == {"node_k"}

\* AttachNode.keep_transform: decided by the marker's (stripped) name.
keep_transform(name) == name \in KeepTransformNames

OffsetNames == {"CoMOffset", "CoPOffset", "CoLOffset"}

-----------------------------------------------------------------------------
(* The resource interner.                                                  *)

\* make_texture(mu, tex): mu.textures is passed and returned explicitly.
make_texture_always_new(textures, tex) ==
    LET mutex == [name |-> tex.tex, type |-> tex.type, index |-> Len(textures)]
        t2 == Append(textures, [k |-> tex.tex, v |-> mutex])
    IN  [textures |-> t2,
         mattex |-> [index |-> mutex.index, scale |-> tex.scale,
                     offset |-> tex.offset]]

make_texture(textures, tex) ==
    LET mutex == [name |-> tex.tex, type |-> tex.type, index |-> Len(textures)]
        t2 == IF ~DictHas(textures, tex.tex)
              THEN DictSet(textures, tex.tex, mutex)
              ELSE textures
    IN  [textures |-> t2,
         mattex |-> [index |-> DictGet(t2, tex.tex).index,
                     scale |-> tex.scale,
                     offset |-> tex.offset]]

\* make_tex_property(mu, blendprop): the loop over blendprop, first item first.
RECURSIVE make_tex_property(_, _)
make_tex_property(textures, blendprop) ==
    IF blendprop = <<>> THEN [textures |-> textures, muprop |-> <<>>]
    ELSE LET before == make_tex_property(textures,
                                         SubSeq(blendprop, 1, Len(blendprop) - 1))
             item == blendprop[Len(blendprop)]
             r == make_texture(before.textures, item)
         IN  [textures |-> r.textures,
              muprop |-> DictSet(before.muprop, item.name, r.mattex)]

\* make_material(mu, mat): the new material's index is the table's size. The
\* four value buckets (make_property) copy values verbatim and are left out.
make_material_index_from_one(materials, textures, matname) ==
    LET mat == scene.matdb[matname]
        tp == make_tex_property(textures, mat.textures)
    IN  [textures |-> tp.textures,
         material |-> [name |-> matname,
                       index |-> Len(materials) + 1,
                       shaderName |-> mat.shaderName,
                       textureProperties |-> tp.muprop]]

make_material(materials, textures, matname) ==
    LET mat == scene.matdb[matname]
        tp == make_tex_property(textures, mat.textures)
    IN  [textures |-> tp.textures,
         material |-> [name |-> matname,
                       index |-> Len(materials),
                       shaderName |-> mat.shaderName,
                       textureProperties |-> tp.muprop]]

\* The loop of make_renderer over mesh.materials; rend is rend.materials.
RECURSIVE make_renderer_loop(_, _, _)
make_renderer_loop(materials, textures, mats) ==
    IF mats = <<>>
    THEN [materials |-> materials, textures |-> textures, rend |-> <<>>]
    ELSE LET before == make_renderer_loop(materials, textures,
                                          SubSeq(mats, 1, Len(mats) - 1))
             m == mats[Len(mats)]
         IN  IF scene.matdb[m].shaderName # ""
             THEN LET isnew == ~DictHas(before.materials, m)
                      made == make_material(before.materials, before.textures, m)
                      mats2 == IF isnew
                               THEN DictSet(before.materials, m, made.material)
                               ELSE before.materials
                      tex2 == IF isnew THEN made.textures ELSE before.textures
                  IN  [materials |-> mats2, textures |-> tex2,
                       rend |-> Append(before.rend, DictGet(mats2, m).index)]
             ELSE before

\* A missing renderer (None) is present = FALSE.
NoRenderer == [present |-> FALSE, materials |-> <<>>]

\* make_renderer(mu, mesh)
make_renderer(materials, textures, mats) ==
    LET r == make_renderer_loop(materials, textures, mats)
    IN  [materials |-> r.materials, textures |-> r.textures,
         renderer |-> IF r.rend = <<>> THEN NoRenderer
                      ELSE [present |-> TRUE, materials |-> r.rend]]

-----------------------------------------------------------------------------
(* Object kinds and the scene's structure.                                 *)

\* type(obj.data); "NONE" stands for an object without data.
light_types == {"PointLight", "SunLight", "SpotLight", "HemiLight", "AreaLight"}

exportable_types == {"Mesh", "Camera"} \cup light_types

\* light.type of each light class.
LightType(kind) ==
    CASE kind = "PointLight" -> "POINT"
      [] kind = "SunLight" -> "SUN"
      [] kind = "SpotLight" -> "SPOT"
      [] kind = "HemiLight" -> "HEMI"
      [] kind = "AreaLight" -> "AREA"

\* make_light: ('SPOT', 'SUN', 'POINT', 'AREA').index(light.type) raises
\* ValueError for a type outside the tuple.
make_light_raises(kind) == LightType(kind) \notin {"SPOT", "SUN", "POINT", "AREA"}

Ids == DOMAIN objects

\* The export root: export_object's obj.
Root == 1

\* A set of object ids as the sequence a Blender collection iterates in.
RECURSIVE SeqOf(_)
SeqOf(S) ==
    IF S = {} THEN <<>>
    ELSE LET m == CHOOSE x \in S : \A y \in S : x <= y
         IN  <<m>> \o SeqOf(S \ {m})

\* obj.children
Children(o) == SeqOf({c \in Ids : objects[c].parent = o})

\* group.objects
GroupObjects(g) == SeqOf({c \in Ids : g \in objects[c].users_group})

RECURSIVE is_group_root(_, _)
is_group_root(o, g) ==
    IF objects[o].parent = None THEN TRUE
    ELSE IF g \notin objects[objects[o].parent].users_group THEN FALSE
    ELSE is_group_root(objects[o].parent, g)

HasCollider(o) == objects[o].collider # "" /\ objects[o].collider # "MU_COL_NONE"

special_modelTypes ==
    [NONE |-> {}, PART |-> {"INTERNAL"}, PROP |-> {}, INTERNAL |-> {"PROP"}]

\* "path" after lines 169-171.
join_path_no_separator(path, name) == path \o name

join_path(path, name) == IF path # "" THEN path \o "/" \o name ELSE name

\* make_transform(obj); localRotation is the product of the object's own
\* rotation ("obj") and the corrections multiplied onto it from the right.
make_transform(o) ==
    [name |-> strip_nnn(objects[o].name),
     localPosition |-> objects[o].location,
     localRotation |-> <<"obj">>]

\* Quaternion((0.5**0.5, 0.5**0.5, 0, 0)) and Quaternion((0.5**0.5, -0.5**0.5, 0, 0))
RotPlus90X == "+90X"
RotMinus90X == "-90X"

-----------------------------------------------------------------------------
(* make_obj, one frame of the stack per active call.  A frame's phase:      *)
(*   "enter"       called, body not yet run                                 *)
(*   "group"       in the loop over group.objects (lines 193-206)           *)
(*   "group_call"  that loop's make_obj call has been made (line 203)       *)
(*   "children"    in the loop over obj.children (lines 229-241)            *)
(*   "child_call"  that loop's make_obj call has been made (line 239)       *)
(* iter is what the running loop has still to visit, loc the local "loc".   *)

Top == stack[Len(stack)]

Running == pc = "make_obj" /\ stack # <<>>

SetTop(f) == [stack EXCEPT ![Len(stack)] = f]

Pop == SubSeq(stack, 1, Len(stack) - 1)

\* make_obj(mu, o, special, path) is called.
CallFrame(o, path) ==
    [phase |-> "enter", obj |-> o, path |-> path, muobj |-> None,
     iter |-> <<>>, loc |-> 0]

\* The MuObject whose make_obj made the running call (None for the root's).
Caller == IF Len(stack) > 1 THEN stack[Len(stack) - 1].muobj ELSE None

\* Lines 167-173: the new MuObject, its path and its entry in the path index.
\* parent and path record who asked for the node and where it was registered.
NewMuObject(o, path) ==
    [obj |-> o, parent |-> Caller, path |-> path,
     transform |-> make_transform(o),
     children |-> <<>>, collider |-> None, shared_mesh |-> None,
     renderer |-> NoRenderer, light |-> "", camera |-> FALSE,
     animation |-> ""]

Rotated(node, rot) ==
    [node EXCEPT !.transform.localRotation = Append(@, rot)]

IsMarker(o) == objects[o].data = "NONE" /\ IsNodeName(strip_nnn(objects[o].name))

\* AttachNode(obj, mu.inverse)
\* index is the key AttachNode orders by.
AttachNode(o) == [name |-> strip_nnn(objects[o].name), obj |-> o, index |-> o]

\* Lines 174-190 on the node and on mu, for a marker that keeps its transform
\* or an object that is no marker.
AfterEmptyBranch(o, node, m) ==
    LET name == strip_nnn(objects[o].name)
    IN  IF objects[o].data # "NONE" THEN [node |-> node, mu |-> m]
        ELSE IF IsNodeName(name)
        THEN [node |-> Rotated(node, RotPlus90X),
              mu |-> [m EXCEPT !.nodes = Append(@, AttachNode(o))]]
        ELSE IF name \in OffsetNames
        THEN [node |-> node, mu |-> [m EXCEPT !.offsets[name] = o]]
        ELSE [node |-> node, mu |-> m]

IsGroupInstance(o) == objects[o].data = "NONE" /\ objects[o].dupli_group # ""

\* Lines 207-228 on the node and on mu: the collider and data branches.
AfterDataBranch(o, node, m) ==
    LET kind == objects[o].data
    IN  IF IsGroupInstance(o) \/ HasCollider(o) \/ kind = "NONE"
        THEN [node |-> node, mu |-> m]
        ELSE IF kind = "Mesh"
        THEN LET r == make_renderer(m.materials, m.textures, objects[o].materials)
             IN  [node |-> [node EXCEPT !.shared_mesh = o, !.renderer = r.renderer],
                  mu |-> [m EXCEPT !.materials = r.materials,
                                   !.textures = r.textures]]
        ELSE IF kind \in light_types
        THEN [node |-> Rotated([node EXCEPT !.light = LightType(kind)], RotMinus90X),
              mu |-> m]
        ELSE IF kind = "Camera"
        THEN [node |-> Rotated([node EXCEPT !.camera = TRUE], RotMinus90X),
              mu |-> m]
        ELSE [node |-> node, mu |-> m]

\* Lines 179-180: the marker declines to keep its transform.
DeclinesNever(o) == FALSE

Declines(o) == IsMarker(o) /\ ~keep_transform(strip_nnn(objects[o].name))

\* Line 216: make_light raises.
LightRaises(o) ==
    /\ ~IsGroupInstance(o) /\ ~HasCollider(o)
    /\ objects[o].data \in light_types
    /\ make_light_raises(objects[o].data)

\* Lines 167-180: the marker is recorded and make_obj returns None.
MakeObjDecline ==
    /\ Running /\ Top.phase = "enter" /\ Declines(Top.obj)
    /\ LET o == Top.obj
           path == join_path(Top.path, strip_nnn(objects[o].name))
           id == Len(muobjs) + 1
       IN  /\ muobjs' = Append(muobjs, NewMuObject(o, path))
           /\ mu' = [mu EXCEPT !.object_paths = DictSet(@, path, id),
                               !.nodes = Append(@, AttachNode(o))]
    /\ stack' = Pop
    /\ ret' = None
    /\ UNCHANGED <<objects, scene, pc, error, files, calls>>

\* Lines 167-216 when make_light raises: nothing catches it, export_object ends.
MakeObjRaise ==
    /\ Running /\ Top.phase = "enter" /\ ~Declines(Top.obj) /\ LightRaises(Top.obj)
    /\ LET o == Top.obj
           path == join_path(Top.path, strip_nnn(objects[o].name))
           id == Len(muobjs) + 1
           e == AfterEmptyBranch(o, NewMuObject(o, path),
                                 [mu EXCEPT !.object_paths = DictSet(@, path, id)])
       IN  /\ muobjs' = Append(muobjs, e.node)
           /\ mu' = e.mu
    /\ stack' = <<>>
    /\ pc' = "failed"
    /\ error' = "ValueError"
    /\ UNCHANGED <<objects, scene, ret, files, calls>>

\* Lines 167-228 otherwise: the node is built and a loop begins.
MakeObjEnter ==
    /\ Running /\ Top.phase = "enter" /\ ~Declines(Top.obj) /\ ~LightRaises(Top.obj)
    /\ LET o == Top.obj
           path == join_path(Top.path, strip_nnn(objects[o].name))
           id == Len(muobjs) + 1
           e == AfterEmptyBranch(o, NewMuObject(o, path),
                                 [mu EXCEPT !.object_paths = DictSet(@, path, id)])
           d == AfterDataBranch(o, e.node, e.mu)
       IN  /\ muobjs' = Append(muobjs, d.node)
           /\ mu' = d.mu
           /\ stack' = SetTop(
                IF IsGroupInstance(o)
                THEN [Top EXCEPT !.phase = "group", !.path = path, !.muobj = id,
                                 !.iter = GroupObjects(objects[o].dupli_group)]
                ELSE [Top EXCEPT !.phase = "children", !.path = path, !.muobj = id,
                                 !.iter = Children(o)])
    /\ UNCHANGED <<objects, scene, pc, ret, error, files, calls>>

\* Lines 197-198: not a group root.
GroupSkip ==
    /\ Running /\ Top.phase = "group" /\ Top.iter # <<>>
    /\ ~is_group_root(Head(Top.iter), objects[Top.obj].dupli_group)
    /\ stack' = SetTop([Top EXCEPT !.iter = Tail(@)])
    /\ UNCHANGED <<objects, scene, mu, muobjs, pc, ret, error, files, calls>>

\* Lines 201-203: shift the group root by the offset and descend.
GroupCall ==
    /\ Running /\ Top.phase = "group" /\ Top.iter # <<>>
    /\ is_group_root(Head(Top.iter), objects[Top.obj].dupli_group)
    /\ LET o == Head(Top.iter)
       IN  /\ objects' = [objects EXCEPT ![o].location = @ - scene.dupli_offset]
           /\ stack' = Append(SetTop([Top EXCEPT !.phase = "group_call",
                                                 !.loc = objects[o].location]),
                              CallFrame(o, Top.path))
    /\ UNCHANGED <<scene, mu, muobjs, pc, ret, error, files, calls>>

\* Lines 204-206: the call returned; restore the location, keep the child.
GroupReturn ==
    /\ Running /\ Top.phase = "group_call"
    /\ objects' = [objects EXCEPT ![Head(Top.iter)].location = Top.loc]
    /\ muobjs' = IF ret # None
                 THEN [muobjs EXCEPT ![Top.muobj].children = Append(@, ret)]
                 ELSE muobjs
    /\ stack' = SetTop([Top EXCEPT !.phase = "group", !.iter = Tail(@)])
    /\ UNCHANGED <<scene, mu, pc, ret, error, files, calls>>

\* The loop over group.objects is over; line 229 follows.
GroupDone ==
    /\ Running /\ Top.phase = "group" /\ Top.iter = <<>>
    /\ stack' = SetTop([Top EXCEPT !.phase = "children", !.iter = Children(Top.obj)])
    /\ UNCHANGED <<objects, scene, mu, muobjs, pc, ret, error, files, calls>>

InChildLoop == Running /\ Top.phase = "children" /\ Top.iter # <<>>

\* special[muprops.modelType], the handler table export_object passed down.
Captured(o) == objects[o].modelType \in special_modelTypes[mu.type]

\* Lines 231-233: a special handler takes the child (add_internal, add_prop).
ChildCaptured ==
    /\ InChildLoop /\ Captured(Head(Top.iter))
    /\ LET o == Head(Top.iter)
       IN  mu' = IF objects[o].modelType = "INTERNAL"
                 THEN [mu EXCEPT !.internal = IF @ = None THEN o ELSE @]
                 ELSE [mu EXCEPT !.props = Append(@, o)]
    /\ stack' = SetTop([Top EXCEPT !.iter = Tail(@)])
    /\ UNCHANGED <<objects, scene, muobjs, pc, ret, error, files, calls>>

\* Lines 234-236: the child is a collider of this node.
ChildCollider ==
    /\ InChildLoop /\ ~Captured(Head(Top.iter)) /\ HasCollider(Head(Top.iter))
    /\ muobjs' = [muobjs EXCEPT ![Top.muobj].collider = Head(Top.iter)]
    /\ stack' = SetTop([Top EXCEPT !.iter = Tail(@)])
    /\ UNCHANGED <<objects, scene, mu, pc, ret, error, files, calls>>

Unexportable(o) == objects[o].data # "NONE" /\ objects[o].data \notin exportable_types

\* Lines 237-238: data of a kind that is not exported.
ChildPruned ==
    /\ InChildLoop /\ ~Captured(Head(Top.iter)) /\ ~HasCollider(Head(Top.iter))
    /\ Unexportable(Head(Top.iter))
    /\ stack' = SetTop([Top EXCEPT !.iter = Tail(@)])
    /\ UNCHANGED <<objects, scene, mu, muobjs, pc, ret, error, files, calls>>

\* Line 239
ChildCall ==
    /\ InChildLoop /\ ~Captured(Head(Top.iter)) /\ ~HasCollider(Head(Top.iter))
    /\ ~Unexportable(Head(Top.iter))
    /\ stack' = Append(SetTop([Top EXCEPT !.phase = "child_call"]),
                       CallFrame(Head(Top.iter), Top.path))
    /\ UNCHANGED <<objects, scene, mu, muobjs, pc, ret, error, files, calls>>

\* Lines 240-241
ChildReturn ==
    /\ Running /\ Top.phase = "child_call"
    /\ muobjs' = IF ret # None
                 THEN [muobjs EXCEPT ![Top.muobj].children = Append(@, ret)]
                 ELSE muobjs
    /\ stack' = SetTop([Top EXCEPT !.phase = "children", !.iter = Tail(@)])
    /\ UNCHANGED <<objects, scene, mu, pc, ret, error, files, calls>>

\* Line 242
MakeObjReturn ==
    /\ Running /\ Top.phase = "children" /\ Top.iter = <<>>
    /\ ret' = Top.muobj
    /\ stack' = Pop
    /\ UNCHANGED <<objects, scene, mu, muobjs, pc, error, files, calls>>

-----------------------------------------------------------------------------
(* export_object.                                                          *)

\* Mu() as lines 331-343 leave it.
NewMu ==
    [name |-> strip_nnn(objects[Root].name),
     type |-> objects[Root].modelType,
     object_paths |-> <<>>, materials |-> <<>>, textures |-> <<>>,
     nodes |-> <<>>, props |-> <<>>, internal |-> None,
     offsets |-> [CoMOffset |-> None, CoPOffset |-> None, CoLOffset |-> None],
     obj |-> None]

\* The path collect_animations gives an object: the stripped names from the
\* export root down to it.
RECURSIVE ObjPath(_)
ObjPath(o) ==
    IF o = Root THEN strip_nnn(objects[o].name)
    ELSE ObjPath(objects[o].parent) \o "/" \o strip_nnn(objects[o].name)

\* find_path_root(collect_animations(obj)): "" without animation, else the
\* path of the shallowest object all animated properties lie under.
anim_root == IF scene.animated = None THEN "" ELSE ObjPath(scene.animated)

\* Lines 329-344 up to the call of make_obj.
ExportObject ==
    /\ pc = "start"
    /\ mu' = NewMu
    /\ stack' = <<CallFrame(Root, "")>>
    /\ pc' = "make_obj"
    /\ UNCHANGED <<objects, scene, muobjs, ret, error, files, calls>>

\* Lines 344-348: make_obj has returned; the tables become index-sorted lists.
SortTables ==
    /\ pc = "make_obj" /\ stack = <<>>
    /\ mu' = [mu EXCEPT !.obj = ret,
                        !.materials = SortByIndex(DictValues(@)),
                        !.textures = SortByIndex(DictValues(@))]
    /\ pc' = "animation"
    /\ UNCHANGED <<objects, scene, muobjs, stack, ret, error, files, calls>>

\* Lines 349-351, no KeyError.
BindAnimation ==
    /\ pc = "animation"
    /\ anim_root # "" => DictHas(mu.object_paths, anim_root)
    /\ muobjs' = IF anim_root # ""
                 THEN [muobjs EXCEPT
                         ![DictGet(mu.object_paths, anim_root)].animation = anim_root]
                 ELSE muobjs
    /\ pc' = "write"
    /\ UNCHANGED <<objects, scene, mu, stack, ret, error, files, calls>>

\* Line 350: mu.object_paths[anim_root] raises KeyError.
BindAnimationKeyError ==
    /\ pc = "animation"
    /\ anim_root # "" /\ ~DictHas(mu.object_paths, anim_root)
    /\ pc' = "failed"
    /\ error' = "KeyError"
    /\ UNCHANGED <<objects, scene, mu, muobjs, stack, ret, files, calls>>

\* Lines 352-353: mu.write(filepath); model_volume reads the scene only.
WriteMu ==
    /\ pc = "write"
    /\ files' = [files EXCEPT !.mu = TRUE]
    /\ pc' = "cfg"
    /\ UNCHANGED <<objects, scene, mu, muobjs, stack, ret, error, calls>>

-----------------------------------------------------------------------------
(* generate_cfg.  A template source is "absent", "ok" or "malformed"; a     *)
(* template that loads has the sections scene.sections.                     *)

\* find_template: "raise" (ConfigNodeError leaves it), "none" or "found".
find_template ==
    IF scene.text_template # "absent"
    THEN (IF scene.text_template = "ok" THEN "found" ELSE "raise")
    ELSE IF scene.file_template = "ok" THEN "found"
    ELSE "none"

\* Lines 285-287
ntype == IF mu.type = "NONE" THEN scene.modelType ELSE mu.type

\* A key/value pair of the config: the value is computed from attribute attr
\* of object "of".
CfgValue(key, attr, o) == [key |-> key, attr |-> attr, of |-> o]

\* add_prop_node(node, prop): the values of the new PROP node.
add_prop_node(prop) ==
    [node |-> "PROP",
     values |-> <<CfgValue("name", "name", prop),
                  CfgValue("position", "location", prop),
                  CfgValue("position", "rotation_quaternion", prop),
                  CfgValue("scale", "scale", prop)>>]

\* add_internal_node(node, internal); no object of the scene is scaled.
add_internal_node(internal) ==
    [node |-> "INTERNAL",
     values |-> <<CfgValue("name", "name", internal)>>
                \o (IF objects[internal].location # 0
                    THEN <<CfgValue("offset", "location", internal)>>
                    ELSE <<>>)]

\* Lines 292-306: what generate_cfg adds to the section, in order.
CfgAdded ==
    IF ntype = "PART"
    THEN (IF mu.offsets.CoMOffset # None
          THEN <<CfgValue("CoMOffset", "matrix_world", mu.offsets.CoMOffset)>>
          ELSE <<>>)
         \o (IF mu.offsets.CoPOffset # None
             THEN <<CfgValue("CoPOffset", "matrix_world", mu.offsets.CoPOffset)>>
             ELSE <<>>)
         \o (IF mu.offsets.CoLOffset # None
             THEN <<CfgValue("CoLOffset", "matrix_world", mu.offsets.CoLOffset)>>
             ELSE <<>>)
         \o (IF mu.internal # None THEN <<add_internal_node(mu.internal)>> ELSE <<>>)
         \o [i \in DOMAIN mu.nodes |->
               CfgValue(SortByIndex(mu.nodes)[i].name, "matrix_world",
                        SortByIndex(mu.nodes)[i].obj)]
    ELSE IF ntype = "INTERNAL"
    THEN [i \in DOMAIN mu.props |-> add_prop_node(mu.props[i])]
    ELSE <<>>

\* Line 250: ConfigNode.load raises ConfigNodeError outside any try.
GenerateCfgError ==
    /\ pc = "cfg" /\ find_template = "raise"
    /\ pc' = "failed"
    /\ error' = "ConfigNodeError"
    /\ UNCHANGED <<objects, scene, mu, muobjs, stack, ret, files, calls>>

\* Lines 283-284: no template.
GenerateCfgNoTemplate ==
    /\ pc = "cfg" /\ find_template = "none"
    /\ pc' = "done"
    /\ UNCHANGED <<objects, scene, mu, muobjs, stack, ret, error, files, calls>>

\* Lines 288-290: the template has no section of the model's type.
GenerateCfgNoSection ==
    /\ pc = "cfg" /\ find_template = "found" /\ ntype \notin scene.sections
    /\ pc' = "done"
    /\ UNCHANGED <<objects, scene, mu, muobjs, stack, ret, error, files, calls>>

\* Lines 291-310: the section is filled and the config written.
GenerateCfgWrite ==
    /\ pc = "cfg" /\ find_template = "found" /\ ntype \in scene.sections
    /\ mu' = [mu EXCEPT !.nodes = IF ntype = "PART" THEN SortByIndex(@) ELSE @]
    /\ files' = [files EXCEPT !.cfg = TRUE, !.section = ntype, !.added = CfgAdded]
    /\ pc' = "done"
    /\ UNCHANGED <<objects, scene, muobjs, stack, ret, error, calls>>

-----------------------------------------------------------------------------
(* The scenes explored.                                                    *)

\* Bounds of the explored inputs.
MaxLoc == 1
MaxOffset == 1
MaxMats == 2
MaxCalls == 3
MaxScale == 2

Obj(name, parent, data, collider, modelType, dupli, groups, mats, loc) ==
    [name |-> name, parent |-> parent, data |-> data, collider |-> collider,
     modelType |-> modelType, dupli_group |-> dupli, users_group |-> groups,
     materials |-> mats, location |-> loc]

\* An object with nothing special about it.
Plain(name, parent, data) ==
    Obj(name, parent, data, "MU_COL_NONE", "NONE", "", {}, <<>>, 0)

TexUse(tex) == [name |-> tex, tex |-> tex, type |-> 0, scale |-> 1, offset |-> 0]

Mat(shader, texs) ==
    [shaderName |-> shader, textures |-> [i \in DOMAIN texs |-> TexUse(texs[i])]]

MatNames == {"m1", "m2"}

TexIds == {"t1", "t2"}

DefaultMatdb == [m \in MatNames |-> Mat("KSP/Diffuse", <<"t1">>)]

\* The sequences over S of length at most n.
RECURSIVE SeqsUpTo(_, _)
SeqsUpTo(S, n) ==
    IF n = 0 THEN {<<>>}
    ELSE LET shorter == SeqsUpTo(S, n - 1)
         IN  shorter \cup {Append(q, x) : q \in shorter, x \in S}

Scene(objs, offset, matdb, text, file, sections, mtype, animated) ==
    [objects |-> objs,
     scene |-> [dupli_offset |-> offset, matdb |-> matdb,
                text_template |-> text, file_template |-> file,
                sections |-> sections, modelType |-> mtype,
                animated |-> animated,
                location0 |-> [i \in DOMAIN objs |-> objs[i].location]]]

\* A scene that varies nothing but its objects.
Simple(objs) == Scene(objs, 0, DefaultMatdb, "absent", "absent", {}, "NONE", None)

G == "G"

InG(b) == IF b THEN {G} ELSE {}

\* Blender keeps object names unique.
UniqueNames(objs) ==
    \A i, j \in DOMAIN objs : i # j => objs[i].name # objs[j].name

RECURSIVE GroupRootIn(_, _)
GroupRootIn(objs, o) ==
    \/ objs[o].parent = None
    \/ /\ G \in objs[objs[o].parent].users_group
       /\ GroupRootIn(objs, objs[o].parent)

RECURSIVE UnderOrSelf(_, _, _)
UnderOrSelf(objs, o, a) ==
    \/ o = a
    \/ objs[o].parent # None /\ UnderOrSelf(objs, objs[o].parent, a)

\* No group instance lies in what its own group expands to (make_obj would
\* not return).
NoRecursion(objs) ==
    \A e, o \in DOMAIN objs :
        (/\ objs[e].data = "NONE" /\ objs[e].dupli_group # ""
         /\ G \in objs[o].users_group /\ GroupRootIn(objs, o))
        => ~UnderOrSelf(objs, e, o)

ChildNames == {"a", "a.001", "b", "a/b", "node_a", "node_a.001", "node_k"}

\* Hierarchies of empties and meshes under all the names.
NameScenes ==
    {Simple(<<Plain("r", None, "NONE"), Plain(n2, 1, k2), Plain(n3, p3, k3),
              Plain(n4, p4, "NONE")>>) :
        n2 \in ChildNames, n3 \in ChildNames, n4 \in ChildNames,
        k2 \in {"NONE", "Mesh"}, k3 \in {"NONE", "Mesh"},
        p3 \in {1, 2}, p4 \in {1, 2, 3}}
    \cup
    {Simple(<<Plain(".001", None, "NONE"), Plain(n2, 1, "Mesh"), Plain(n3, 2, k3)>>) :
        n2 \in {"a", "node_k"}, n3 \in {"b", "a.001"}, k3 \in {"NONE", "Mesh"}}

RootVariants ==
    {Plain("r", None, "NONE"),
     Obj("r", None, "NONE", "MU_COL_NONE", "NONE", G, {}, <<>>, 0),
     Obj("r", None, "Mesh", "MU_COL_NONE", "NONE", "", {}, <<"m1">>, 0),
     Obj("r", None, "Mesh", "MU_COL_BOX", "NONE", "", {}, <<"m1">>, 0)}

Colliders == {"MU_COL_NONE", "MU_COL_BOX"}

\* Every kind of object, with and without a collider, as a declared child
\* and as a member of the group the root may instance.
RoleScenes ==
    {Scene(<<r, Obj(n2, p2, k2, c2, "NONE", "", InG(g2), <<"m1">>, 0),
                Obj("b", p3, k3, "MU_COL_NONE", "NONE", "", InG(g3), <<"m2">>, 0)>>,
           1, DefaultMatdb, "absent", "absent", {}, "NONE", None) :
        r \in RootVariants,
        n2 \in {"a", "node_a", "node_k"},
        k2 \in {"NONE", "Mesh", "PointLight", "HemiLight", "Camera", "Curve"},
        c2 \in Colliders, g2 \in BOOLEAN, p2 \in {None, 1},
        k3 \in {"Mesh", "SpotLight"}, g3 \in BOOLEAN, p3 \in {None, 2}}

\* Group instances under every offset and location.
GroupScenes ==
    {Scene(<<Obj("r", None, "NONE", "MU_COL_NONE", "NONE", G, {}, <<>>, 0),
             Obj("a", None, k2, "MU_COL_NONE", "NONE", "", InG(g2), <<>>, l2),
             Obj("b", p3, k3, "MU_COL_NONE", "NONE", "", InG(g3), <<>>, l3)>>,
           off, DefaultMatdb, "absent", "absent", {}, "NONE", None) :
        k2 \in {"NONE", "Mesh", "HemiLight"}, k3 \in {"NONE", "Mesh", "HemiLight"},
        g2 \in BOOLEAN, g3 \in BOOLEAN, p3 \in {None, 2},
        l2 \in 0..MaxLoc, l3 \in 0..MaxLoc, off \in 0..MaxOffset}

\* Meshes under every assignment of materials and textures.
MaterialScenes ==
    {Scene(<<Obj("r", None, "Mesh", "MU_COL_NONE", "NONE", "", {}, <<"m2">>, 0),
             Obj("a", 1, "Mesh", c2, "NONE", "", {}, m2, 0),
             Obj("b", p3, "Mesh", "MU_COL_NONE", "NONE", "", {}, m3, 0)>>,
           0, [m1 |-> Mat("KSP/Diffuse", t1), m2 |-> Mat(s2, t2)],
           "absent", "absent", {}, "NONE", None) :
        m2 \in SeqsUpTo(MatNames, MaxMats), m3 \in SeqsUpTo(MatNames, 1),
        c2 \in Colliders, p3 \in {1, 2},
        t1 \in SeqsUpTo(TexIds, 2), t2 \in SeqsUpTo(TexIds, 1),
        s2 \in {"", "KSP/Specular"}}

TemplateStates == {"absent", "ok", "malformed"}

\* Model types, captured children and template sources.
ConfigScenes ==
    {Scene(<<Obj("r", None, "NONE", "MU_COL_NONE", rt, "", {}, <<>>, 0),
             Obj(n2, 1, "NONE", "MU_COL_NONE", t2, "", {}, <<>>, 1),
             Obj("b", 1, "Mesh", "MU_COL_NONE", t3, "", {}, <<"m1">>, 0)>>,
           0, DefaultMatdb, text, file, secs, st, None) :
        rt \in {"NONE", "PART", "PROP", "INTERNAL"},
        n2 \in {"a", "node_a", "CoMOffset"},
        t2 \in {"NONE", "INTERNAL", "PROP"}, t3 \in {"NONE", "PROP"},
        text \in TemplateStates, file \in TemplateStates,
        secs \in {{}, {"PART", "INTERNAL", "PROP"}},
        st \in {"NONE", "INTERNAL"}}

\* Every object of a small hierarchy as the animated one.
AnimationScenes ==
    {Scene(<<Plain("r", None, "NONE"),
             Obj(n2, 1, k2, c2, "NONE", "", {}, <<"m1">>, 0),
             Plain(n3, p3, k3)>>,
           0, DefaultMatdb, "absent", "absent", {}, "NONE", an) :
        n2 \in {"a", "node_a"}, k2 \in {"NONE", "Mesh", "Curve"},
        c2 \in Colliders,
        n3 \in {"b", "a.001"}, k3 \in {"NONE", "Mesh"}, p3 \in {1, 2},
        an \in 0..3}

\* Objects whose data is of no exportable kind, as a declared child of the
\* root or as a member of the group the root instances, with a mesh below.
PrunedScenes ==
    {Scene(<<Obj("r", None, "NONE", "MU_COL_NONE", "NONE", d1, {}, <<>>, 0),
             Obj("a", p2, "Curve", "MU_COL_NONE", "NONE", "", InG(g2), <<>>, 0),
             Obj("b", 2, k3, "MU_COL_NONE", "NONE", "", InG(g3), <<>>, 0)>>,
           0, DefaultMatdb, "absent", "absent", {}, "NONE", None) :
        d1 \in {"", G}, p2 \in {None, 1}, g2 \in BOOLEAN, g3 \in BOOLEAN,
        k3 \in {"Mesh", "Curve"}}

Scenes ==
    {s \in NameScenes \cup RoleScenes \cup GroupScenes \cup MaterialScenes
           \cup ConfigScenes \cup AnimationScenes \cup PrunedScenes :
        UniqueNames(s.objects) /\ NoRecursion(s.objects)}

NoFiles == [mu |-> FALSE, cfg |-> FALSE, section |-> "", added |-> <<>>]

\* Mu() before export_object fills it.
EmptyMu ==
    [name |-> "", type |-> "NONE",
     object_paths |-> <<>>, materials |-> <<>>, textures |-> <<>>,
     nodes |-> <<>>, props |-> <<>>, internal |-> None,
     offsets |-> [CoMOffset |-> None, CoPOffset |-> None, CoLOffset |-> None],
     obj |-> None]

Init ==
    /\ \E s \in Scenes : objects = s.objects /\ scene = s.scene
    /\ mu = EmptyMu
    /\ muobjs = <<>>
    /\ stack = <<>>
    /\ pc = "start"
    /\ ret = None
    /\ error = ""
    /\ files = NoFiles
    /\ calls = <<>>

Next ==
    \/ ExportObject
    \/ MakeObjDecline
    \/ MakeObjRaise
    \/ MakeObjEnter
    \/ GroupSkip
    \/ GroupCall
    \/ GroupReturn
    \/ GroupDone
    \/ ChildCaptured
    \/ ChildCollider
    \/ ChildPruned
    \/ ChildCall
    \/ ChildReturn
    \/ MakeObjReturn
    \/ SortTables
    \/ BindAnimation
    \/ BindAnimationKeyError
    \/ WriteMu
    \/ GenerateCfgError
    \/ GenerateCfgNoTemplate
    \/ GenerateCfgNoSection
    \/ GenerateCfgWrite

Spec == Init /\ [][Next]_vars

-----------------------------------------------------------------------------
(* make_texture on its own: any sequence of calls on one model.            *)

TexInputs ==
    [name : {"_MainTex"}, tex : TexIds, type : {0},
     scale : 1..MaxScale, offset : 0..1]

MakeTextureCall ==
    /\ pc = "interning"
    /\ Len(calls) < MaxCalls
    /\ \E tex \in TexInputs :
         LET r == make_texture(mu.textures, tex)
         IN  /\ mu' = [mu EXCEPT !.textures = r.textures]
             /\ calls' = Append(calls, [tex |-> tex, mattex |-> r.mattex])
    /\ UNCHANGED <<objects, scene, muobjs, stack, pc, ret, error, files>>

InitTex ==
    /\ objects = <<Plain("r", None, "NONE")>>
    /\ scene = Simple(<<Plain("r", None, "NONE")>>).scene
    /\ mu = EmptyMu
    /\ muobjs = <<>>
    /\ stack = <<>>
    /\ pc = "interning"
    /\ ret = None
    /\ error = ""
    /\ files = NoFiles
    /\ calls = <<>>

NextTex == MakeTextureCall

SpecTex == InitTex /\ [][NextTex]_vars

-----------------------------------------------------------------------------
(* Properties.                                                             *)

\* make_obj has returned to export_object (line 344 and after).
Built == pc \in {"animation", "write", "cfg", "done"} \/ error \in {"KeyError", "ConfigNodeError"}

Nodes == DOMAIN muobjs

RECURSIVE Reach(_)
Reach(n) ==
    {n} \cup UNION {Reach(muobjs[n].children[k]) : k \in DOMAIN muobjs[n].children}

\* The output tree: the MuObjects reachable from mu.obj.
Tree == IF mu.obj = None THEN {} ELSE Reach(mu.obj)

NodeName(n) == muobjs[n].transform.name

RECURSIVE FirstOccurrences(_)
FirstOccurrences(q) ==
    IF q = <<>> THEN <<>>
    ELSE LET front == FirstOccurrences(SubSeq(q, 1, Len(q) - 1))
             x == q[Len(q)]
         IN  IF \E i \in DOMAIN front : front[i] = x THEN front ELSE Append(front, x)

RECURSIVE Flatten(_)
Flatten(qq) == IF qq = <<>> THEN <<>> ELSE Head(qq) \o Flatten(Tail(qq))

\* The elements of sequence q that are in set S, in q's order.
RECURSIVE Filter(_, _)
Filter(q, S) ==
    IF q = <<>> THEN <<>>
    ELSE (IF Head(q) \in S THEN <<Head(q)>> ELSE <<>>) \o Filter(Tail(q), S)

PositionOf(q, x) == CHOOSE i \in DOMAIN q : q[i] = x

----
\* C1: in any sequence of make_texture calls on one model, two calls with the
\* same source identifier return the same index, every returned use carries
\* the scale and offset of its own call, and the texture table holds exactly
\* one entry per distinct source identifier.
C1_TextureInterning ==
    /\ \A i, j \in DOMAIN calls :
         calls[i].tex.tex = calls[j].tex.tex
         => calls[i].mattex.index = calls[j].mattex.index
    /\ \A i \in DOMAIN calls :
         /\ calls[i].mattex.scale = calls[i].tex.scale
         /\ calls[i].mattex.offset = calls[i].tex.offset
    /\ \A i \in DOMAIN calls :
         Cardinality({k \in DOMAIN mu.textures :
                        mu.textures[k].v.name = calls[i].tex.tex}) = 1
    /\ Len(mu.textures) = Cardinality({calls[i].tex.tex : i \in DOMAIN calls})

\* Two calls share a source identifier and differ in scale and in offset, and
\* another identifier was interned between them.
C1_Witness ==
    /\ Len(calls) = 3
    /\ calls[1].tex.tex = calls[3].tex.tex
    /\ calls[1].tex.tex # calls[2].tex.tex
    /\ calls[1].tex.scale # calls[3].tex.scale
    /\ calls[1].tex.offset # calls[3].tex.offset

----
HasShader(m) == scene.matdb[m].shaderName # ""

\* The MuObjects of exported meshes, in the order make_obj met them.
ExportedMeshes ==
    Filter([n \in Nodes |-> n],
           {n \in Nodes : /\ objects[muobjs[n].obj].data = "Mesh"
                          /\ ~HasCollider(muobjs[n].obj)})

\* The shader-bearing materials of mesh object o, slot by slot.
ShaderMaterials(o) == Filter(objects[o].materials, {m \in MatNames : HasShader(m)})

\* The materials in the order the traversal first met them.
MaterialsMet ==
    FirstOccurrences(Flatten([k \in DOMAIN ExportedMeshes |->
                                ShaderMaterials(muobjs[ExportedMeshes[k]].obj)]))

\* The textures in the order the materials made first used them.
TexturesMet ==
    FirstOccurrences(Flatten([k \in DOMAIN MaterialsMet |->
        [t \in DOMAIN scene.matdb[MaterialsMet[k]].textures |->
            scene.matdb[MaterialsMet[k]].textures[t].tex]]))

\* C2: after the traversal the material list sorted by index holds one entry
\* per shader-bearing material met on an exported mesh, in first-met order
\* and indexed 0..n-1; every renderer lists the indices of its mesh's
\* materials; the same holds for the texture list.
C2_TablesInFirstMetOrder ==
    Built =>
      /\ [i \in DOMAIN mu.materials |-> mu.materials[i].name] = MaterialsMet
      /\ \A i \in DOMAIN mu.materials : mu.materials[i].index = i - 1
      /\ [i \in DOMAIN mu.textures |-> mu.textures[i].name] = TexturesMet
      /\ \A i \in DOMAIN mu.textures : mu.textures[i].index = i - 1
      /\ \A k \in DOMAIN ExportedMeshes :
           LET n == ExportedMeshes[k]
               mats == ShaderMaterials(muobjs[n].obj)
           IN  /\ muobjs[n].renderer.present = (mats # <<>>)
               /\ muobjs[n].renderer.materials
                    = [i \in DOMAIN mats |-> PositionOf(MaterialsMet, mats[i]) - 1]
      /\ \A i \in DOMAIN mu.materials :
           LET props == scene.matdb[mu.materials[i].name].textures
           IN  \A t \in DOMAIN props :
                 DictGet(mu.materials[i].textureProperties, props[t].name).index
                   = PositionOf(TexturesMet, props[t].tex) - 1

\* Two meshes share the material with index 1, a second material and two
\* textures are in the tables, and a material without shader was on a mesh.
C2_Witness ==
    /\ pc = "done"
    /\ Len(mu.materials) = 2 /\ Len(mu.textures) = 2
    /\ \E n, m \in Nodes :
         /\ n # m
         /\ muobjs[n].renderer.present /\ muobjs[m].renderer.present
         /\ muobjs[n].renderer.materials = <<1>>
         /\ muobjs[m].renderer.materials = <<1, 0>>
    /\ mu.textures[1].name = "t2"

----
\* C3: no node of the output tree belongs to an object with a collider other
\* than the export root, however make_obj reached it, and a collider record
\* sits only in the collider field of the node of the object's parent.
C3_ColliderNeverNode ==
    /\ Built => \A n \in Tree : muobjs[n].obj = Root \/ ~HasCollider(muobjs[n].obj)
    /\ \A n \in Nodes :
         muobjs[n].collider # None
         => /\ HasCollider(muobjs[n].collider)
            /\ objects[muobjs[n].collider].parent = muobjs[n].obj

----
HasSlash(name) == \E i \in 1..Len(name) : SubSeq(name, i, i) = "/"

\* The path of node n is its parent's path, "/" and its name; the root's path
\* is its name.
PathJoined(n) ==
    muobjs[n].path = IF muobjs[n].parent = None THEN NodeName(n)
                     ELSE muobjs[muobjs[n].parent].path \o "/" \o NodeName(n)

\* The path index maps n's path to n.
Indexed(n) ==
    /\ DictHas(mu.object_paths, muobjs[n].path)
    /\ DictGet(mu.object_paths, muobjs[n].path) = n

\* No two nodes of S under one parent node have the same name.
SiblingsDiffer(S) ==
    \A n, m \in S :
        (n # m /\ muobjs[n].parent = muobjs[m].parent) => NodeName(n) # NodeName(m)

\* C4 as stated: after the traversal every node of the tree is registered
\* under its parent's path + "/" + its name, the index maps that path to it,
\* and, if no two emitted siblings share a name, no two nodes share a path.
C4_PathsAsStated ==
    Built =>
      /\ \A n \in Tree : PathJoined(n) /\ Indexed(n)
      /\ SiblingsDiffer(Tree)
         => \A n, m \in Tree : n # m => muobjs[n].path # muobjs[m].path

\* The names make_obj met are usable in paths: the root's is not empty, none
\* holds a "/", and no two objects make_obj was called for under one parent
\* node (emitted or not) share one.
PathSafeNames ==
    /\ \A n \in Nodes : ~HasSlash(NodeName(n))
    /\ \A n \in Nodes : muobjs[n].parent = None => NodeName(n) # ""
    /\ SiblingsDiffer(Nodes)

\* C4, amended: the same three facts, under PathSafeNames.
C4_PathsOfSafeNames ==
    (Built /\ PathSafeNames) =>
      /\ \A n \in Tree : PathJoined(n) /\ Indexed(n)
      /\ \A n, m \in Tree : n # m => muobjs[n].path # muobjs[m].path

\* A finished export of four nodes three levels deep, with a declined marker
\* beside them, under names that are safe.
C4_Witness ==
    /\ pc = "done" /\ PathSafeNames
    /\ Cardinality(Tree) = 3 /\ Len(muobjs) = 4
    /\ \E n \in Tree : muobjs[n].parent # None /\ muobjs[muobjs[n].parent].parent # None

----
\* The group roots a running group-instance step has shifted.
Shifted ==
    {Head(stack[k].iter) : k \in {j \in DOMAIN stack : stack[j].phase = "group_call"}}

\* C5: outside the group-instance step that shifted it, an object is at the
\* location it had before the export, whether the nested make_obj returned
\* or raised.
C5_LocationRestored ==
    \A o \in Ids : o \notin Shifted => objects[o].location = scene.location0[o]

----
\* The stripped name of object o starts with "node_".
NamedNode(o) ==
    LET name == strip_nnn(objects[o].name)
    IN  Len(name) >= 5 /\ SubSeq(name, 1, 5) = "node_"

Corrections(n) == Tail(muobjs[n].transform.localRotation)

\* C6: a node of the finished tree carries +90 about X exactly if its object
\* is a data-less "node_" marker, -90 exactly if its data is a light or a
\* camera, and otherwise no correction; never two.
C6_OneCorrectionPerRole ==
    Built =>
      \A n \in Tree :
        LET o == muobjs[n].obj
        IN  /\ Len(Corrections(n)) <= 1
            /\ (Corrections(n) = <<RotPlus90X>>)
                 <=> (objects[o].data = "NONE" /\ NamedNode(o))
            /\ (Corrections(n) = <<RotMinus90X>>)
                 <=> (objects[o].data \in light_types \cup {"Camera"})

----
\* Object o is a data-less "node_" marker whose AttachNode does not keep its
\* transform.
DeclinedMarker(o) ==
    /\ objects[o].data = "NONE"
    /\ NamedNode(o)
    /\ ~keep_transform(strip_nnn(objects[o].name))

RECURSIVE Under(_, _)
\* Object o is a descendant of object a in the scene's hierarchy.
Under(o, a) ==
    /\ objects[o].parent # None
    /\ (objects[o].parent = a \/ Under(objects[o].parent, a))

\* One AttachNode per call of make_obj for a marker.
OneAttachNodePerVisit ==
    \A o \in Ids :
        Cardinality({k \in DOMAIN mu.nodes : mu.nodes[k].obj = o})
          = Cardinality({n \in Nodes : /\ muobjs[n].obj = o
                                        /\ objects[o].data = "NONE"
                                        /\ NamedNode(o)})

\* make_obj returned None exactly for the markers that declined.
NoneOnlyForDeclined ==
    Built => \A n \in Nodes : n \notin Tree <=> DeclinedMarker(muobjs[n].obj)

\* C7 as stated: one AttachNode per marker visit; a declining marker and all
\* its descendants are absent from the output tree; nothing else makes
\* make_obj return None.
C7_MarkerAsStated ==
    /\ OneAttachNodePerVisit
    /\ NoneOnlyForDeclined
    /\ Built =>
         \A n \in Tree, o \in Ids :
            DeclinedMarker(o) => (muobjs[n].obj # o /\ ~Under(muobjs[n].obj, o))

\* C7, amended: the call that declined added no node and visited no child:
\* no node was asked for by it.
C7_MarkerVisit ==
    /\ OneAttachNodePerVisit
    /\ NoneOnlyForDeclined
    /\ \A n \in Nodes :
         DeclinedMarker(muobjs[n].obj)
         => /\ muobjs[n].children = <<>>
            /\ \A m \in Nodes : muobjs[m].parent # n
    /\ Built => \A n \in Tree : ~DeclinedMarker(muobjs[n].obj)

\* A finished export in which a marker with a child declined and another
\* marker kept its transform.
C7_Witness ==
    /\ pc = "done"
    /\ \E n \in Nodes :
         /\ DeclinedMarker(muobjs[n].obj)
         /\ \E c \in Ids : objects[c].parent = muobjs[n].obj
    /\ \E n \in Tree : objects[muobjs[n].obj].data = "NONE" /\ NamedNode(muobjs[n].obj)
    /\ Len(mu.nodes) = 2

----
\* C8: the config of an INTERNAL model has one PROP node per captured prop,
\* in capture order, each with name, position, rotation and scale once.
C8_PropBlocks ==
    (pc = "done" /\ files.cfg /\ files.section = "INTERNAL") =>
      /\ Len(files.added) = Len(mu.props)
      /\ \A i \in DOMAIN files.added :
           /\ files.added[i].node = "PROP"
           /\ files.added[i].values[1].of = mu.props[i]
           /\ \A key \in {"name", "position", "rotation", "scale"} :
                Cardinality({k \in DOMAIN files.added[i].values :
                               files.added[i].values[k].key = key}) = 1

----
\* The source find_template turns to holds no template that loads.
TemplateUnusable ==
    \/ scene.text_template = "malformed"
    \/ scene.text_template = "absent" /\ scene.file_template # "ok"

\* C9: with no usable template export_object does not fail in generate_cfg,
\* and ends with the binary model written and no config.
C9_TemplateFailureNotFatal ==
    TemplateUnusable =>
      /\ error # "ConfigNodeError"
      /\ pc = "done" => (files.mu /\ ~files.cfg)

----
Animated == {n \in Nodes : muobjs[n].animation # ""}

\* C10: binding does not fail; without a path root no node has a clip, with
\* one exactly the node the index holds for it has, and it is in the tree.
C10_AnimationBinding ==
    /\ error # "KeyError"
    /\ pc \in {"write", "cfg", "done"} =>
         IF anim_root = "" THEN Animated = {}
         ELSE /\ Animated = {DictGet(mu.object_paths, anim_root)}
              /\ Animated \subseteq Tree

----
\* The object's data is of a kind make_obj has no branch for.
UnknownData(o) ==
    objects[o].data \notin {"NONE", "Mesh", "Camera", "PointLight", "SunLight",
                            "SpotLight", "HemiLight", "AreaLight"}

\* C11: an object other than the root whose data is of no exportable kind
\* has no node in the output tree, and neither has any object below it,
\* however make_obj came to it.
C11_UnexportablePruned ==
    Built =>
      \A n \in Tree : \A o \in DOMAIN objects :
        (o # Root /\ UnknownData(o))
        => (muobjs[n].obj # o /\ ~Under(muobjs[n].obj, o))

====
